---- MODULE Spec2Model ----
(***************************************************************************)
(* Model of nsidc_icesat2_sync.py: the selective incremental mirror of the *)
(* NSIDC ICESat-2 archive (main, check_connection, nsidc_icesat2_sync and  *)
(* http_pull_file).  Names (hrefs, products, releases) are sequences of    *)
(* one-character strings so that the regular expressions the program       *)
(* builds are matched character by character.  Positions in sequences are  *)
(* 1-based here and 0-based in the Python source.                          *)
(***************************************************************************)
EXTENDS Integers, Sequences, FiniteSets, TLC

(***************************************************************************)
(* Bounds of the model                                                     *)
(***************************************************************************)
MaxRuns == 2
MaxFaults == 1

(***************************************************************************)
(* Characters and number formatting                                        *)
(***************************************************************************)
DigitChars == <<"0", "1", "2", "3", "4", "5", "6", "7", "8", "9">>

DigitSet == {DigitChars[k] : k \in DOMAIN DigitChars}

RECURSIVE Decimal(_)
\* '{0:d}'.format(n) for n >= 0
Decimal(n) ==
    IF n < 10 THEN <<DigitChars[n + 1]>>
    ELSE Decimal(n \div 10) \o <<DigitChars[(n % 10) + 1]>>

\* '{0:0wd}'.format(n): at least w characters, padded with zeros on the left
ZeroPad(n, w) ==
    LET d == Decimal(n)
        Pad[k \in Nat] == IF k = 0 THEN <<>> ELSE <<"0">> \o Pad[k - 1]
    IN  IF Len(d) >= w THEN d ELSE Pad[w - Len(d)] \o d

(***************************************************************************)
(* Regular expressions (the subset of Python's re the program uses).       *)
(* Ends(re, s, I) is the set of positions at which a match of re that      *)
(* starts at a position of I can end; greedy and lazy quantifiers have the *)
(* same set of possible ends.  re.match anchors the start only.            *)
(***************************************************************************)
Chr(c) == <<"chr", c>>
Dig == <<"dig">>
AnyChar == <<"any">>
Cat(rs) == <<"cat", rs>>
Alt(rs) == <<"alt", rs>>
Rep(r, n) == <<"rep", r, n>>
Star(r) == <<"star", r>>
Plus(r) == <<"plus", r>>
\* '|'.join('{0:0wd}'.format(n) for n in ns): an alternation of literals
AltNumbers(ns, w) == <<"num", ns, w>>

RECURSIVE DigitsValue(_)
\* the number a sequence of digits writes
DigitsValue(t) ==
    IF t = <<>> THEN 0
    ELSE 10 * DigitsValue(SubSeq(t, 1, Len(t) - 1)) +
         (CHOOSE v \in 0..9 : DigitChars[v + 1] = t[Len(t)])

\* the literals of AltNumbers(ns, w) are the zero-padded ns: one of them is
\* read at position i exactly when the digits there write a number of ns in
\* its zero-padded form; a literal has at least w and at most 9 digits
NumberEnds(ns, w, s, I) ==
    UNION {{i + m : m \in {n \in w..9 :
                /\ i + n - 1 <= Len(s)
                /\ \A j \in i..(i + n - 1) : s[j] \in DigitSet
                /\ LET t == SubSeq(s, i, i + n - 1)
                       v == DigitsValue(t)
                   IN  /\ ZeroPad(v, w) = t
                       /\ \E k \in DOMAIN ns : ns[k] = v}}
            : i \in I}

RECURSIVE Ends(_, _, _), CatEnds(_, _, _, _)
\* the parts rs[k], rs[k+1], ... of a concatenation, matched one after the other
CatEnds(rs, k, s, I) ==
    IF k > Len(rs) \/ I = {} THEN I
    ELSE CatEnds(rs, k + 1, s, Ends(rs[k], s, I))

Ends(re, s, I) ==
    CASE re[1] = "chr" ->
            {i + 1 : i \in {j \in I : j <= Len(s) /\ s[j] = re[2]}}
      [] re[1] = "dig" ->
            {i + 1 : i \in {j \in I : j <= Len(s) /\ s[j] \in DigitSet}}
      [] re[1] = "any" ->
            {i + 1 : i \in {j \in I : j <= Len(s) /\ s[j] # "\n"}}
      [] re[1] = "cat" ->
            CatEnds(re[2], 1, s, I)
      [] re[1] = "alt" ->
            UNION {Ends(re[2][k], s, I) : k \in DOMAIN re[2]}
      [] re[1] = "num" ->
            IF re[2] = <<>> THEN I ELSE NumberEnds(re[2], re[3], s, I)
      [] re[1] = "rep" ->
            IF re[3] = 0 THEN I
            ELSE Ends(Rep(re[2], re[3] - 1), s, Ends(re[2], s, I))
      [] re[1] = "star" ->
            LET more == Ends(re[2], s, I) \ I
            IN  IF more = {} THEN I ELSE Ends(re, s, I \cup more)
      [] re[1] = "plus" ->
            Ends(Star(re[2]), s, Ends(re[2], s, I))

\* R.match(s): a match that starts at the first character, ending anywhere
ReMatch(re, s) == Ends(re, s, {1}) # {}

RECURSIVE PatternText(_)
\* a string interpolated into a pattern is pattern source: under re.VERBOSE
\* blanks are dropped, "." is the wildcard, other characters are literals
PatternText(t) ==
    IF t = <<>> THEN <<>>
    ELSE LET c == Head(t)
         IN  IF c = " " THEN PatternText(Tail(t))
             ELSE <<IF c = "." THEN AnyChar ELSE Chr(c)>> \o PatternText(Tail(t))

\* '|'.join(items) inside a group; items is a sequence of pattern sources
JoinAlt(items) ==
    IF items = <<>> THEN Cat(<<>>)
    ELSE Alt([k \in DOMAIN items |-> Cat(PatternText(items[k]))])

(***************************************************************************)
(* Time: time.strptime(text, '%Y-%m-%d %H:%M') and calendar.timegm         *)
(***************************************************************************)
\* a last-modified cell: <<"date", Y, M, D, h, m>> is the text
\* 'YYYY-MM-DD HH:MM  ', <<"blank">> a text node that holds no date
\* (&nbsp;), <<"notext">> a cell without any text node
DateCell(Y, M, D, h, m) == <<"date", Y, M, D, h, m>>
BlankCell == <<"blank">>
NoTextCell == <<"notext">>

\* strptime succeeds exactly on a text of the fixed format
Parses(cell) == cell[1] = "date"

\* the struct_time fields (year, month, day, hour, minute, second)
Strptime(cell) == <<cell[2], cell[3], cell[4], cell[5], cell[6], 0>>

IsLeap(y) == (y % 4 = 0) /\ ((y % 100 # 0) \/ (y % 400 = 0))

DaysInMonth(y, m) ==
    IF m = 2 THEN (IF IsLeap(y) THEN 29 ELSE 28)
    ELSE IF m \in {4, 6, 9, 11} THEN 30 ELSE 31

DaysBeforeYear(y) ==
    (y - 1) * 365 + ((y - 1) \div 4) - ((y - 1) \div 100) + ((y - 1) \div 400)

RECURSIVE DaysBeforeMonth(_, _)
DaysBeforeMonth(y, m) ==
    IF m = 1 THEN 0 ELSE DaysBeforeMonth(y, m - 1) + DaysInMonth(y, m - 1)

ToOrdinal(y, m, d) == DaysBeforeYear(y) + DaysBeforeMonth(y, m) + d

\* calendar.timegm: seconds since 1970-01-01 00:00:00 UTC
Timegm(t) ==
    LET days == ToOrdinal(t[1], t[2], 1) - ToOrdinal(1970, 1, 1) + t[3] - 1
    IN  ((days * 24 + t[4]) * 60 + t[5]) * 60 + t[6]

(***************************************************************************)
(* Command line defaults of main()                                         *)
(***************************************************************************)
\* an option that was not given on the command line
NotGiven == <<>>

DefaultVERSIONS == [k \in 1..9 |-> k]
DefaultGRANULES == [k \in 1..14 |-> k]
DefaultTRACKS == [k \in 1..1387 |-> k]
DefaultMODE == 509

Option(given, default) == IF given = NotGiven THEN default ELSE given

(***************************************************************************)
(* The two matchers compiled by nsidc_icesat2_sync                         *)
(***************************************************************************)
\* R1: ICESat-2 files of product p for the release, tracks, granule regions
\* and versions of the configuration
FileRegex(p, c) ==
    LET regex_track == AltNumbers(c.TRACKS, 4)
        regex_granule == AltNumbers(c.GRANULES, 2)
        regex_version == AltNumbers(c.VERSIONS, 2)
        regex_suffix == IF c.AUXILIARY THEN Star(AnyChar) ELSE Cat(<<Chr("h"), Chr("5")>>)
    IN  Cat(PatternText(p) \o
            <<Chr("_"), Rep(Dig, 4), Rep(Dig, 2), Rep(Dig, 2), Rep(Dig, 2),
              Rep(Dig, 2), Rep(Dig, 2), Chr("_"), regex_track, Rep(Dig, 2),
              regex_granule, Chr("_"), Cat(PatternText(c.RELEASE)), Chr("_"),
              regex_version, Star(AnyChar), AnyChar, regex_suffix>>)

\* bool(a) of the numpy array main() builds from a comma separated option
\* (None when the option is not given): the truth value of an array with
\* more than one element is ambiguous and bool() raises ValueError
TruthValue(a) ==
    IF Len(a) > 1 THEN "ValueError"
    ELSE IF Len(a) = 1 /\ a[1] # 0 THEN "True" ELSE "False"

\* `if SUBDIRECTORY: ... elif YEARS:` raises instead of compiling R2
SubdirRegexRaises(c) ==
    c.SUBDIRECTORY = <<>> /\ TruthValue(c.YEARS) = "ValueError"

\* R2: the subdirectories to sync
SubdirRegex(c) ==
    IF c.SUBDIRECTORY # <<>>
    THEN JoinAlt(c.SUBDIRECTORY)
    ELSE IF c.YEARS # <<>>
    THEN Cat(<<AltNumbers(c.YEARS, 1),
               AnyChar, Plus(Dig), AnyChar, Plus(Dig)>>)
    ELSE Cat(<<Plus(Dig), AnyChar, Plus(Dig), AnyChar, Plus(Dig)>>)

(***************************************************************************)
(* The remote archive: names, listing pages and their rows                 *)
(***************************************************************************)
HOST == "https://n5eil01u.ecs.nsidc.org"
ATLAS == "ATLAS"
ddir == <<"d", "d", "i", "r">>

ATL06 == <<"A", "T", "L", "0", "6">>
ATL08 == <<"A", "T", "L", "0", "8">>
Release003 == <<"0", "0", "3">>

\* the dated subdirectories of the archive, as (year, month, day)
Date2018 == <<2018, 10, 14>>
Date2019 == <<2019, 3, 12>>
AllDates == {Date2018, Date2019}

\* the dated subdirectories each product has on the archive, in page order
RemoteDates(p) == IF p = ATL06 THEN <<Date2018, Date2019>> ELSE <<Date2019>>

\* href of a dated subdirectory, e.g. 2018.10.14/
SubdirHref(d) ==
    Decimal(d[1]) \o <<".">> \o ZeroPad(d[2], 2) \o <<".">> \o ZeroPad(d[3], 2) \o <<"/">>

\* href of the parent directory row
ParentHref == <<"/", "A", "T", "L", "A", "S", "/">>

\* name of a granule file, e.g. ATL06_20181014001049_02350102_003_01.h5
Granule(p, d, hms, track, cycle, region, release, version, suffix) ==
    p \o <<"_">> \o Decimal(d[1]) \o ZeroPad(d[2], 2) \o ZeroPad(d[3], 2)
      \o ZeroPad(hms[1], 2) \o ZeroPad(hms[2], 2) \o ZeroPad(hms[3], 2)
      \o <<"_">> \o ZeroPad(track, 4) \o ZeroPad(cycle, 2) \o ZeroPad(region, 2)
      \o <<"_">> \o release \o <<"_">> \o ZeroPad(version, 2) \o suffix

SuffixH5 == <<".", "h", "5">>
SuffixXml == <<".", "i", "s", "o", ".", "x", "m", "l">>

\* the three entries a dated directory of product p can hold: a granule A,
\* its auxiliary file X and a second granule B, each with its last-modified cell
EntryRow(p, d, e) ==
    CASE e = "A" -> [name |-> Granule(p, d, <<0, 10, 49>>, 235, 1, 2, Release003, 1, SuffixH5),
                     lastmod |-> DateCell(d[1], d[2], d[3] + 1, 9, 0)]
      [] e = "X" -> [name |-> Granule(p, d, <<0, 10, 49>>, 235, 1, 2, Release003, 1, SuffixXml),
                     lastmod |-> DateCell(d[1], d[2], d[3] + 1, 9, 5)]
      [] e = "B" -> [name |-> Granule(p, d, <<0, 25, 26>>, 235, 1, 3, Release003, 1, SuffixH5),
                     lastmod |-> DateCell(d[1], d[2], d[3] + 2, 10, 0)]

EntryOrder == <<"A", "X", "B">>

\* a page without a parent directory row
NoParent == <<"absent">>

\* the row of the parent directory, when the page has one
ParentRows(r) ==
    IF r.parent = NoParent THEN <<>>
    ELSE <<[name |-> ParentHref, lastmod |-> r.parent]>>

\* the index page of ATLAS/{product}.{release}: one row per dated subdirectory
ProductRows(r, p) ==
    ParentRows(r) \o
    [k \in DOMAIN RemoteDates(p) |->
        [name |-> SubdirHref(RemoteDates(p)[k]),
         lastmod |-> DateCell(RemoteDates(p)[k][1], RemoteDates(p)[k][2],
                              RemoteDates(p)[k][3] + 3, 0, 0)]]

\* the index page of a dated subdirectory, rows in name order
FileRows(r, p, sd) ==
    LET known == {x \in AllDates : SubdirHref(x) = sd}
        d == CHOOSE x \in known : TRUE
        present == SelectSeq(EntryOrder, LAMBDA e : e \in r.names)
    IN  IF known = {} THEN ParentRows(r)
        ELSE ParentRows(r) \o
             [k \in DOMAIN present |->
                 IF present[k] \in r.notime
                 THEN [EntryRow(p, d, present[k]) EXCEPT !.lastmod = NoTextCell]
                 ELSE EntryRow(p, d, present[k])]

\* tree.xpath('//td[@class="indexcolname"]//a/@href')
Colnames(rows) == [k \in DOMAIN rows |-> rows[k].name]

\* tree.xpath('//td[@class="indexcollastmod"]/text()'): the text nodes only
Collastmod(rows) ==
    LET withText == SelectSeq(rows, LAMBDA row : row.lastmod[1] # NoTextCell[1])
    IN  [k \in DOMAIN withText |-> withText[k].lastmod]

ParentCells == {NoParent, BlankCell, NoTextCell}
EntrySets == {{"A", "X"}, {"A", "B"}}
\* the pages of the archive: every file row has its last-modified text, or,
\* in one archive, the row of granule A has none
Archives ==
    [parent : ParentCells, names : EntrySets, notime : {{}}] \cup
    {[parent |-> NoParent, names |-> {"A", "B"}, notime |-> {"A"}]}

(***************************************************************************)
(* Paths                                                                   *)
(***************************************************************************)
\* '{0}.{1}'.format(p, RELEASE)
ProductRelease(p, release) == p \o <<".">> \o release

\* paths are kept as the sequence of components handed to os.path.join and
\* posixpath.join
RemoteDir(c, p) == <<HOST, ATLAS, ProductRelease(p, c.RELEASE)>>
LocalProductDir(c, p) == <<ddir, ProductRelease(p, c.RELEASE)>>

\* os.makedirs(path): the directory and every missing ancestor
Makedirs(ds, path) == ds \cup {SubSeq(path, 1, k) : k \in 1..Len(path)}

\* os.path.join(a, *p) on the text of the components: a component that starts
\* with a slash replaces what was joined so far, and a slash is put in only
\* after a part that does not end with one
RECURSIVE JoinFrom(_, _, _)
JoinFrom(path, parts, k) ==
    IF k > Len(parts) THEN path
    ELSE LET b == parts[k]
         IN  JoinFrom(IF Len(b) > 0 /\ b[1] = "/" THEN b
                      ELSE IF Len(path) = 0 \/ path[Len(path)] = "/" THEN path \o b
                      ELSE path \o <<"/">> \o b,
                      parts, k + 1)

OsPathJoin(parts) == JoinFrom(parts[1], parts, 2)

(***************************************************************************)
(* Configuration                                                           *)
(***************************************************************************)
\* the options of one command line
OptionSets ==
    [PRODUCTS : {<<ATL06, ATL08>>}, RELEASE : {Release003},
     YEARS : {NotGiven, <<2018>>, <<2019, 2020>>}, SUBDIRECTORY : {NotGiven},
     VERSIONS : {NotGiven}, GRANULES : {NotGiven}, TRACKS : {NotGiven},
     AUXILIARY : BOOLEAN, LIST : BOOLEAN, CLOBBER : BOOLEAN, MODE : {NotGiven}]

\* the arguments main() hands to nsidc_icesat2_sync
Config(o) ==
    [PRODUCTS |-> o.PRODUCTS, RELEASE |-> o.RELEASE, YEARS |-> o.YEARS,
     SUBDIRECTORY |-> o.SUBDIRECTORY,
     VERSIONS |-> Option(o.VERSIONS, DefaultVERSIONS),
     GRANULES |-> Option(o.GRANULES, DefaultGRANULES),
     TRACKS |-> Option(o.TRACKS, DefaultTRACKS),
     AUXILIARY |-> o.AUXILIARY, LIST |-> o.LIST, CLOBBER |-> o.CLOBBER,
     MODE |-> IF o.MODE = NotGiven THEN DefaultMODE ELSE o.MODE[1]]

(***************************************************************************)
(* Local file system and wall clock before the first run                   *)
(***************************************************************************)
\* the wall clock of the machine that runs the sync
WallClock == {Timegm(<<2020, 2, 1, 0, 0, 0>>)}

\* modification times of files that are already there: one older and one
\* newer than every remote timestamp
LocalMtimes == {Timegm(<<2018, 10, 14, 12, 30, 0>>), Timegm(<<2019, 6, 1, 8, 15, 0>>)}

ExistingDir == <<ddir, ProductRelease(ATL06, Release003), SubdirHref(Date2018)>>
ExistingFile == ExistingDir \o <<EntryRow(ATL06, Date2018, "A").name>>

EmptyFiles == [f \in {} |-> 0]

LocalStates ==
    {[dirs |-> {}, files |-> EmptyFiles]} \cup
    {[dirs |-> Makedirs({}, ExistingDir),
      files |-> [f \in {ExistingFile} |->
                    [mtime |-> t, atime |-> t, data |-> "old", mode |-> <<DefaultMODE>>]]]
        : t \in LocalMtimes}

(***************************************************************************)
(* State                                                                   *)
(***************************************************************************)
VARIABLES
    remote,             \* the remote archive (unchanged while the model runs)
    now,                \* the wall clock
    dirs,               \* local directories that exist
    files,              \* local files: path |-> [mtime, atime, data, mode]
    files0,             \* the local files when the current run started
    dirs0,              \* the local directories when the current run started
    opts,               \* the command line of the current run
    pc,                 \* where the current run is
    err,                \* the exception that ended the run, "" when none
    pidx,               \* position of p in PRODUCTS
    remote_sub,         \* retained subdirectories of the current product
    sidx,               \* position of sd in remote_sub
    colnames,           \* hrefs of the current subdirectory page
    collastmod,         \* last-modified texts of the current subdirectory page
    remote_file_lines,  \* positions in colnames of the retained files
    fidx,               \* position of i in remote_file_lines
    pull,               \* <<arguments>> of the running http_pull_file call, else <<>>
    fid,                \* lines printed by the current run
    requests,           \* urlopen calls of the current run, in order
    calls,              \* http_pull_file calls of the current run, in order
    transfers,          \* local files the current run wrote completely
    runs,               \* number of runs started
    faults,             \* number of I/O failures so far
    prev                \* <<options, outcome, output of the previous run>>, else <<>>

vars == <<remote, now, dirs, files, files0, dirs0, opts, pc, err, pidx, remote_sub, sidx,
          colnames, collastmod, remote_file_lines, fidx, pull, fid, requests,
          calls, transfers, runs, faults, prev>>

cfg == Config(opts)

Init ==
    /\ remote \in Archives
    /\ now \in WallClock
    /\ \E l \in LocalStates :
          dirs = l.dirs /\ files = l.files /\ files0 = l.files /\ dirs0 = l.dirs
    /\ opts \in {o \in OptionSets : ~o.LIST /\ ~o.CLOBBER}
    /\ pc = "idle"
    /\ err = ""
    /\ pidx = 0
    /\ remote_sub = <<>>
    /\ sidx = 0
    /\ colnames = <<>>
    /\ collastmod = <<>>
    /\ remote_file_lines = <<>>
    /\ fidx = 0
    /\ pull = <<>>
    /\ fid = <<>>
    /\ requests = <<>>
    /\ calls = <<>>
    /\ transfers = <<>>
    /\ runs = 0
    /\ faults = 0
    /\ prev = <<>>

(***************************************************************************)
(* Steps shared by the actions                                             *)
(***************************************************************************)
\* the file at path becomes rec
SetFile(fs, path, rec) ==
    [f \in (DOMAIN fs) \cup {path} |-> IF f = path THEN rec ELSE fs[f]]

\* an exception nobody catches ends the run: the program has no try/except
\* around its requests, its parsing or its file operations
Raise(e) ==
    /\ pc' = "aborted"
    /\ err' = e

\* one more I/O failure, while the bound allows it
Fault ==
    /\ faults < MaxFaults
    /\ faults' = faults + 1

\* a subdirectory loop that takes every name of the product listing
RetainedAll(names, R2) == names

\* a subdirectory loop that walks the retained names from the last to the first
RetainedReversed(names, R2) ==
    LET kept == SelectSeq(names, LAMBDA sd : ReMatch(R2, sd))
    IN  [k \in DOMAIN kept |-> kept[Len(kept) + 1 - k]]

\* [sd for sd in colnames if R2.match(sd)]
Retained(names, R2) == SelectSeq(names, LAMBDA sd : ReMatch(R2, sd))

\* a file loop that finds no matching line
MatchingLinesNone(names, R1) == <<>>

\* [i for i,f in enumerate(colnames) if R1.match(f)]
MatchingLines(names, R1) ==
    SelectSeq([k \in DOMAIN names |-> k], LAMBDA i : ReMatch(R1, names[i]))

\* a decision that looks at TEST only
TransferIfTest(test, clobber) == test

\* if TEST or CLOBBER
Transfer(test, clobber) == test \/ clobber

\* a transfer that is carried out whatever LIST says
ExecutesAlways(list) == TRUE

\* if not LIST
Executes(list) == ~list

p_cur == cfg.PRODUCTS[pidx]
sd_cur == remote_sub[sidx]

(***************************************************************************)
(* main(): a new command line, then the connectivity probe                 *)
(***************************************************************************)
StartRun(l, c) ==
    /\ pc \in {"idle", "done", "aborted"}
    /\ runs < MaxRuns
    /\ runs' = runs + 1
    /\ opts' = [opts EXCEPT !.LIST = l, !.CLOBBER = c]
    /\ prev' = IF pc = "idle" THEN <<>>
               ELSE <<[opts |-> opts, outcome |-> pc, fid |-> fid]>>
    /\ pc' = "probe"
    /\ err' = ""
    /\ pidx' = 0
    /\ remote_sub' = <<>>
    /\ sidx' = 0
    /\ colnames' = <<>>
    /\ collastmod' = <<>>
    /\ remote_file_lines' = <<>>
    /\ fidx' = 0
    /\ pull' = <<>>
    /\ fid' = <<>>
    /\ requests' = <<>>
    /\ calls' = <<>>
    /\ transfers' = <<>>
    /\ files0' = files
    /\ dirs0' = dirs
    /\ UNCHANGED <<remote, now, dirs, files, faults>>

\* check_connection() returns True; nsidc_icesat2_sync starts: it creates
\* ddir when missing, installs the opener and compiles R2, which raises
\* ValueError when the truth value of YEARS is ambiguous
CheckConnection ==
    /\ pc = "probe"
    /\ dirs' = IF <<ddir>> \in dirs THEN dirs ELSE Makedirs(dirs, <<ddir>>)
    /\ IF SubdirRegexRaises(cfg)
       THEN /\ Raise("ValueError")
            /\ pidx' = pidx
       ELSE /\ pidx' = 1
            /\ pc' = "product"
            /\ err' = err
    /\ UNCHANGED <<remote, now, files0, dirs0, files, opts, remote_sub, sidx,
                   colnames, collastmod, remote_file_lines, fidx, pull, fid,
                   requests, calls, transfers, runs, faults, prev>>

\* check_connection() raises RuntimeError('Check internet connection')
CheckConnectionFail ==
    /\ pc = "probe"
    /\ Fault
    /\ Raise("RuntimeError")
    /\ UNCHANGED <<remote, now, files0, dirs0, dirs, files, opts, pidx, remote_sub, sidx,
                   colnames, collastmod, remote_file_lines, fidx, pull, fid,
                   requests, calls, transfers, runs, prev>>

(***************************************************************************)
(* nsidc_icesat2_sync: for p in PRODUCTS                                   *)
(***************************************************************************)
\* one pass of the product loop head: the listing of the product is fetched
\* and filtered with R2; after the last product the function returns
ProductStep ==
    /\ pc = "product"
    /\ IF pidx > Len(cfg.PRODUCTS)
       THEN /\ pc' = "done"
            /\ UNCHANGED <<remote_sub, sidx, fid, requests>>
       ELSE LET names == Colnames(ProductRows(remote, p_cur))
                R2 == SubdirRegex(cfg)
            IN  /\ fid' = Append(fid, <<"PRODUCT", p_cur>>)
                /\ requests' = Append(requests, RemoteDir(cfg, p_cur))
                /\ remote_sub' = Retained(names, R2)
                /\ sidx' = 1
                /\ pc' = "subdir"
    /\ UNCHANGED <<remote, now, files0, dirs0, dirs, files, opts, err, pidx, colnames,
                   collastmod, remote_file_lines, fidx, pull, calls, transfers,
                   runs, faults, prev>>

\* urlopen(req) of the product listing raises
ProductListingFail ==
    /\ pc = "product"
    /\ pidx <= Len(cfg.PRODUCTS)
    /\ Fault
    /\ fid' = Append(fid, <<"PRODUCT", p_cur>>)
    /\ requests' = Append(requests, RemoteDir(cfg, p_cur))
    /\ Raise("URLError")
    /\ UNCHANGED <<remote, now, files0, dirs0, dirs, files, opts, pidx, remote_sub, sidx,
                   colnames, collastmod, remote_file_lines, fidx, pull, calls,
                   transfers, runs, prev>>

\* the server answers the first request that carries the Earthdata login
\* with 401: urlopen(req) raises HTTPError
CredentialsRejected ==
    /\ pc = "product"
    /\ pidx = 1
    /\ pidx <= Len(cfg.PRODUCTS)
    /\ Fault
    /\ fid' = Append(fid, <<"PRODUCT", p_cur>>)
    /\ requests' = Append(requests, RemoteDir(cfg, p_cur))
    /\ Raise("HTTPError")
    /\ UNCHANGED <<remote, now, files0, dirs0, dirs, files, opts, pidx, remote_sub,
                   sidx, colnames, collastmod, remote_file_lines, fidx, pull,
                   calls, transfers, runs, prev>>

(***************************************************************************)
(* nsidc_icesat2_sync: for sd in remote_sub                                *)
(***************************************************************************)
local_dir == LocalProductDir(cfg, p_cur) \o <<sd_cur>>

\* a subdirectory loop that goes to the listing without os.makedirs
SubdirStepWithoutMakedirs ==
    /\ pc = "subdir"
    /\ IF sidx > Len(remote_sub)
       THEN /\ pidx' = pidx + 1
            /\ pc' = "product"
            /\ UNCHANGED <<dirs, colnames, collastmod, remote_file_lines, fidx,
                           requests>>
       ELSE LET rows == FileRows(remote, p_cur, sd_cur)
                names == Colnames(rows)
                R1 == FileRegex(p_cur, cfg)
            IN  /\ dirs' = dirs
                /\ requests' = Append(requests, RemoteDir(cfg, p_cur) \o <<sd_cur>>)
                /\ colnames' = names
                /\ collastmod' = Collastmod(rows)
                /\ remote_file_lines' = MatchingLines(names, R1)
                /\ fidx' = 1
                /\ pc' = "file"
                /\ pidx' = pidx
    /\ UNCHANGED <<remote, now, files0, dirs0, files, opts, err, remote_sub, sidx, pull, fid,
                   calls, transfers, runs, faults, prev>>

\* one pass of the subdirectory loop head: local_dir is created when missing,
\* the listing of the subdirectory is fetched and filtered with R1; after the
\* last subdirectory the product loop goes on
SubdirStep ==
    /\ pc = "subdir"
    /\ IF sidx > Len(remote_sub)
       THEN /\ pidx' = pidx + 1
            /\ pc' = "product"
            /\ UNCHANGED <<dirs, colnames, collastmod, remote_file_lines, fidx,
                           requests>>
       ELSE LET rows == FileRows(remote, p_cur, sd_cur)
                names == Colnames(rows)
                R1 == FileRegex(p_cur, cfg)
            IN  /\ dirs' = IF local_dir \in dirs THEN dirs ELSE Makedirs(dirs, local_dir)
                /\ requests' = Append(requests, RemoteDir(cfg, p_cur) \o <<sd_cur>>)
                /\ colnames' = names
                /\ collastmod' = Collastmod(rows)
                /\ remote_file_lines' = MatchingLines(names, R1)
                /\ fidx' = 1
                /\ pc' = "file"
                /\ pidx' = pidx
    /\ UNCHANGED <<remote, now, files0, dirs0, files, opts, err, remote_sub, sidx, pull, fid,
                   calls, transfers, runs, faults, prev>>

\* urlopen(req) of the subdirectory listing raises, after local_dir was made
SubdirListingFail ==
    /\ pc = "subdir"
    /\ sidx <= Len(remote_sub)
    /\ Fault
    /\ dirs' = IF local_dir \in dirs THEN dirs ELSE Makedirs(dirs, local_dir)
    /\ requests' = Append(requests, RemoteDir(cfg, p_cur) \o <<sd_cur>>)
    /\ Raise("URLError")
    /\ UNCHANGED <<remote, now, files0, dirs0, files, opts, pidx, remote_sub, sidx, colnames,
                   collastmod, remote_file_lines, fidx, pull, fid, calls,
                   transfers, runs, prev>>

(***************************************************************************)
(* nsidc_icesat2_sync: for i in remote_file_lines, and http_pull_file      *)
(***************************************************************************)
i_cur == remote_file_lines[fidx]
remote_file == RemoteDir(cfg, p_cur) \o <<sd_cur, colnames[i_cur]>>
local_file == local_dir \o <<colnames[i_cur]>>

\* calendar.timegm(time.strptime(collastmod[i].rstrip(), '%Y-%m-%d %H:%M'))
RemoteMtime(i) == Timegm(Strptime(collastmod[i]))

\* os.access(local_file, os.F_OK)
Exists(f) == f \in DOMAIN files

\* a comparison that also takes equal times for "remote is newer"
TestNotOlder(f, remote_mtime) == ~Exists(f) \/ remote_mtime >= files[f].mtime

\* TEST of http_pull_file: the file is missing or older than the remote one
Test(f, remote_mtime) == ~Exists(f) \/ remote_mtime > files[f].mtime

\* OVERWRITE of http_pull_file
Overwrite(f, remote_mtime) ==
    IF ~Exists(f) THEN " (new)"
    ELSE IF remote_mtime > files[f].mtime THEN " (overwrite)" ELSE " (clobber)"

\* one pass of the file loop: the last-modified text of position i is parsed,
\* http_pull_file is called, decides and prints; in a live run the transfer
\* starts.  After the last file the subdirectory loop goes on.
FileStep ==
    /\ pc = "file"
    /\ IF fidx > Len(remote_file_lines)
       THEN /\ sidx' = sidx + 1
            /\ pc' = "subdir"
            /\ UNCHANGED <<err, fidx, pull, fid, calls>>
       ELSE IF i_cur > Len(collastmod)
       THEN /\ Raise("IndexError")
            /\ UNCHANGED <<sidx, fidx, pull, fid, calls>>
       ELSE IF ~Parses(collastmod[i_cur])
       THEN /\ Raise("ValueError")
            /\ UNCHANGED <<sidx, fidx, pull, fid, calls>>
       ELSE LET remote_mtime == RemoteMtime(i_cur)
                transfer == Transfer(Test(local_file, remote_mtime), cfg.CLOBBER)
            IN  /\ calls' = Append(calls, <<p_cur, sd_cur, colnames[i_cur]>>)
                /\ fid' = IF transfer
                          THEN Append(fid, <<remote_file, local_file,
                                             Overwrite(local_file, remote_mtime)>>)
                          ELSE fid
                /\ IF transfer /\ Executes(cfg.LIST)
                   THEN /\ pull' = <<[remote_file |-> remote_file,
                                      remote_mtime |-> remote_mtime,
                                      local_file |-> local_file]>>
                        /\ pc' = "request"
                        /\ fidx' = fidx
                   ELSE /\ pull' = pull
                        /\ pc' = pc
                        /\ fidx' = fidx + 1
                /\ UNCHANGED <<err, sidx>>
    /\ UNCHANGED <<remote, now, files0, dirs0, dirs, files, opts, pidx, remote_sub, colnames,
                   collastmod, remote_file_lines, requests, transfers, runs,
                   faults, prev>>

\* response = urllib2.urlopen(request)
RequestStep ==
    /\ pc = "request"
    /\ requests' = Append(requests, pull[1].remote_file)
    /\ pc' = "open"
    /\ UNCHANGED <<remote, now, files0, dirs0, dirs, files, opts, err, pidx, remote_sub, sidx,
                   colnames, collastmod, remote_file_lines, fidx, pull, fid,
                   calls, transfers, runs, faults, prev>>

\* urlopen(request) raises HTTPError or URLError
RequestFail ==
    /\ pc = "request"
    /\ Fault
    /\ requests' = Append(requests, pull[1].remote_file)
    /\ Raise("URLError")
    /\ UNCHANGED <<remote, now, files0, dirs0, dirs, files, opts, pidx, remote_sub, sidx,
                   colnames, collastmod, remote_file_lines, fidx, pull, fid,
                   calls, transfers, runs, prev>>

\* open(local_file, 'wb'): the file is created or truncated; its modification
\* time is the wall clock, its access time is kept when it existed
OpenStep ==
    /\ pc = "open"
    /\ LET f == pull[1].local_file
       IN  files' = SetFile(files, f,
                       [mtime |-> now,
                        atime |-> IF Exists(f) THEN files[f].atime ELSE now,
                        data |-> "",
                        mode |-> IF Exists(f) THEN files[f].mode ELSE <<>>])
    /\ pc' = "copy"
    /\ UNCHANGED <<remote, now, files0, dirs0, dirs, opts, err, pidx, remote_sub, sidx,
                   colnames, collastmod, remote_file_lines, fidx, pull, fid,
                   requests, calls, transfers, runs, faults, prev>>

\* open(local_file, 'wb') raises IOError (permission denied, disk full)
OpenFail ==
    /\ pc = "open"
    /\ Fault
    /\ Raise("IOError")
    /\ UNCHANGED <<remote, now, files0, dirs0, dirs, files, opts, pidx, remote_sub, sidx,
                   colnames, collastmod, remote_file_lines, fidx, pull, fid,
                   requests, calls, transfers, runs, prev>>

\* shutil.copyfileobj(response, f, CHUNK) copies the whole body; f is closed
CopyStep ==
    /\ pc = "copy"
    /\ LET f == pull[1].local_file
       IN  files' = SetFile(files, f, [files[f] EXCEPT !.data = "remote"])
    /\ pc' = "utime"
    /\ UNCHANGED <<remote, now, files0, dirs0, dirs, opts, err, pidx, remote_sub, sidx,
                   colnames, collastmod, remote_file_lines, fidx, pull, fid,
                   requests, calls, transfers, runs, faults, prev>>

\* the connection breaks while copyfileobj is copying: f is closed by the
\* with statement and keeps the bytes written so far
CopyFail ==
    /\ pc = "copy"
    /\ Fault
    /\ LET f == pull[1].local_file
       IN  files' = SetFile(files, f, [files[f] EXCEPT !.data = "partial"])
    /\ Raise("URLError")
    /\ UNCHANGED <<remote, now, files0, dirs0, dirs, opts, pidx, remote_sub, sidx, colnames,
                   collastmod, remote_file_lines, fidx, pull, fid, requests,
                   calls, transfers, runs, prev>>

\* os.utime(local_file, (os.stat(local_file).st_atime, remote_mtime)) and
\* os.chmod(local_file, MODE); http_pull_file returns
UtimeStep ==
    /\ pc = "utime"
    /\ LET f == pull[1].local_file
       IN  /\ files' = SetFile(files, f,
                          [files[f] EXCEPT !.atime = files[f].atime,
                                           !.mtime = pull[1].remote_mtime,
                                           !.mode = <<cfg.MODE>>])
           /\ transfers' = Append(transfers, f)
    /\ pull' = <<>>
    /\ fidx' = fidx + 1
    /\ pc' = "file"
    /\ UNCHANGED <<remote, now, files0, dirs0, dirs, opts, err, pidx, remote_sub, sidx,
                   colnames, collastmod, remote_file_lines, requests, fid,
                   calls, runs, faults, prev>>

Next ==
    \/ \E l \in BOOLEAN, c \in BOOLEAN : StartRun(l, c)
    \/ CheckConnection
    \/ CheckConnectionFail
    \/ ProductStep
    \/ ProductListingFail
    \/ CredentialsRejected
    \/ SubdirStep
    \/ SubdirListingFail
    \/ FileStep
    \/ RequestStep
    \/ RequestFail
    \/ OpenStep
    \/ OpenFail
    \/ CopyStep
    \/ CopyFail
    \/ UtimeStep

Spec == Init /\ [][Next]_vars

\* the statements of the program: each one, once reached, is executed (it
\* completes or raises); the interpreter does not stop between statements
Statement ==
    \/ CheckConnection
    \/ ProductStep
    \/ SubdirStep
    \/ FileStep
    \/ RequestStep
    \/ OpenStep
    \/ CopyStep
    \/ UtimeStep

\* the runs in which no request and no file operation fails
ErrorFreeNext ==
    \/ \E l \in BOOLEAN, c \in BOOLEAN : StartRun(l, c)
    \/ Statement

FairSpec == Init /\ [][ErrorFreeNext]_vars /\ WF_vars(Statement)

(***************************************************************************)
(* Properties                                                              *)
(***************************************************************************)
\* the positions of the lines of an output that announce a file
\* ('remote --> local (reason)'); the other lines are the PRODUCT= headers
TransferLines(out) == {k \in DOMAIN out : Len(out[k]) = 3}

\* the (remote URL, local path) pairs an output announces
Announced(out) == {<<out[k][1], out[k][2]>> : k \in TransferLines(out)}

\* the elements of a sequence
Range(q) == {q[k] : k \in DOMAIN q}

\* the current run repeats the command line of the run before it, which was
\* a live run that returned normally
RepeatedLiveRun ==
    /\ prev # <<>>
    /\ prev[1].outcome = "done"
    /\ ~prev[1].opts.LIST
    /\ prev[1].opts = opts

\* the current run announces and transfers nothing
NothingTransferred ==
    /\ pull = <<>>
    /\ transfers = <<>>
    /\ TransferLines(fid) = {}

\* C1 as stated: a run that repeats a completed live run with the same
\* configuration transfers zero files, whatever the configuration is.
C1_IdempotentAnyConfiguration == RepeatedLiveRun => NothingTransferred

\* C1 (amended): a run that repeats a completed live run with the same
\* configuration, the overwrite flag CLOBBER being off, announces and
\* transfers zero files: every decision is UP_TO_DATE.
C1_Idempotent == (RepeatedLiveRun /\ ~opts.CLOBBER) => NothingTransferred

\* a repeated run without CLOBBER has finished, it looked at files, and the
\* run before it had transferred some
C1_Witness ==
    /\ RepeatedLiveRun
    /\ ~opts.CLOBBER
    /\ pc = "done"
    /\ calls # <<>>
    /\ TransferLines(prev[1].fid) # {}

\* the file loop is about to decide on a file that an interrupted transfer
\* of an earlier run left partly written
AtPartialFile ==
    /\ pc = "file"
    /\ fidx <= Len(remote_file_lines)
    /\ i_cur <= Len(collastmod)
    /\ Parses(collastmod[i_cur])
    /\ Exists(local_file)
    /\ files[local_file].data = "partial"

\* C2: a file that an interrupted transfer left partly written is not taken
\* for up to date by a later run without CLOBBER: it is detected as stale
\* (TEST is true) and transferred again.
C2_PartialNeverUpToDate ==
    (AtPartialFile /\ ~cfg.CLOBBER) => Test(local_file, RemoteMtime(i_cur))

\* the file is about to be announced: the loop reaches a retained file of a
\* live run (used to show that the file loop is reached at all)
AtRetainedFile ==
    /\ pc = "file"
    /\ fidx <= Len(remote_file_lines)
    /\ i_cur <= Len(collastmod)
    /\ Parses(collastmod[i_cur])

\* the step in which http_pull_file is called and decides
Decides == AtRetainedFile /\ Len(calls') > Len(calls)

\* the condition of C3 on the local file and the overwrite flag
ShouldTransfer ==
    \/ ~Exists(local_file)
    \/ files[local_file].mtime < RemoteMtime(i_cur)
    \/ cfg.CLOBBER

\* C3 as stated: whenever http_pull_file decides on a retained file, it
\* starts the transfer if and only if the file is absent, older than the
\* remote timestamp, or CLOBBER is set.
C3_TransfersIffNewStaleOrClobber ==
    [][Decides => ((pull' # <<>>) <=> ShouldTransfer)]_vars

\* C3 (amended): the file is announced if and only if it is absent, older
\* than the remote timestamp, or CLOBBER is set; the transfer starts if and
\* only if moreover the run is live (LIST off); and a local file changes only
\* while it is the target of a transfer that was started this way.
C3_TransferDecision ==
    [][/\ Decides =>
            /\ (TransferLines(fid') # TransferLines(fid)) <=> ShouldTransfer
            /\ (pull' # <<>>) <=> (ShouldTransfer /\ ~cfg.LIST)
       /\ (files' # files) =>
            /\ pull # <<>>
            /\ \A f \in (DOMAIN files') \cup (DOMAIN files) :
                  f # pull[1].local_file =>
                      f \in DOMAIN files /\ f \in DOMAIN files' /\ files'[f] = files[f]]_vars

\* every case of the decision has been taken in live runs: the earlier run
\* overwrote a stale file, this run left an up-to-date file alone and
\* transferred a new one
C3_Witness ==
    /\ pc = "done"
    /\ ~cfg.LIST
    /\ ~cfg.CLOBBER
    /\ Len(transfers) < Len(calls)
    /\ transfers # <<>>
    /\ prev # <<>>
    /\ ~prev[1].opts.LIST
    /\ \E k \in TransferLines(prev[1].fid) : prev[1].fid[k][3] = " (overwrite)"

\* a run is under way
Running == pc \notin {"idle", "done", "aborted"}

\* C4: in a run with LIST set no local directory is created and no local
\* file is written, from the start of the run to its end.
C4_DryRunNoLocalEffects ==
    [][(Running /\ cfg.LIST) => (dirs' = dirs /\ files' = files)]_vars

\* the earlier run was a dry run that ended without error, this one is a live
\* run of the same configuration that ended without error
DryThenLive ==
    /\ prev # <<>>
    /\ prev[1].outcome = "done"
    /\ prev[1].opts.LIST
    /\ ~opts.LIST
    /\ prev[1].opts = [opts EXCEPT !.LIST = TRUE]
    /\ pc = "done"

\* C5: a dry run reports the same set of (remote URL, local path) pairs as an
\* error-free live run that starts from the same local files, archive and
\* configuration reports, and the live run transfers exactly these files.
C5_DryRunReportsLiveTransfers ==
    DryThenLive =>
        /\ Announced(prev[1].fid) = Announced(fid)
        /\ {x[2] : x \in Announced(fid)} = Range(transfers)

\* a dry run reported files and the live run after it transferred some
C5_Witness ==
    /\ DryThenLive
    /\ TransferLines(prev[1].fid) # {}
    /\ transfers # <<>>

\* the step in which the fetch of a product listing fails
ProductListingFails ==
    /\ pc = "product"
    /\ pidx <= Len(cfg.PRODUCTS)
    /\ faults' # faults
    /\ err' = "URLError"

\* C6: when the listing fetch of a product fails, the run does not abort: it
\* goes on with the next product of PRODUCTS.
C6_ProductFailureIsolated ==
    [][ProductListingFails => (pc' = "product" /\ pidx' = pidx + 1)]_vars

\* the step in which the download or the local write of a file fails
FileTransferFails ==
    /\ pc \in {"request", "open", "copy"}
    /\ faults' # faults

\* the step in which the fetch of a subdirectory listing fails
SubdirListingFails ==
    /\ pc = "subdir"
    /\ sidx <= Len(remote_sub)
    /\ faults' # faults

\* C7: when the download or the write of one file fails, the run goes on with
\* the next retained file; when the listing fetch of one subdirectory fails,
\* it goes on with the next subdirectory.
C7_FileFailureIsolated ==
    [][/\ FileTransferFails => (pc' = "file" /\ fidx' = fidx + 1)
       /\ SubdirListingFails => (pc' = "subdir" /\ sidx' = sidx + 1)]_vars

\* the row of the i-th name of the listing of sd
OwnRow(p, sd, i) == FileRows(remote, p, sd)[i]

\* the row reports a last-modified value
Timed(row) == Parses(row.lastmod)

\* the last-modified value that the listing reports in the row of its i-th
\* name, in epoch seconds
OwnTimestamp(p, sd, i) == Timegm(Strptime(OwnRow(p, sd, i).lastmod))

\* the step that completes a transfer
CompletesTransfer == pc = "utime" /\ pc' = "file"

\* C8: when a transfer completes, the modification time of the local file is
\* the last-modified time that the listing reports for this file, in epoch
\* seconds, and its access time is the one it had after the write.
C8_MtimeIsRemoteLastModified ==
    [][CompletesTransfer =>
          LET f == pull[1].local_file
          IN  /\ Timed(OwnRow(p_cur, sd_cur, i_cur))
              /\ files'[f].mtime = OwnTimestamp(p_cur, sd_cur, i_cur)
              /\ files'[f].atime = files[f].atime]_vars

\* the files of the archive that lie in a retained subdirectory of a product
\* of the run and pass the file matcher of that product
EligibleFiles ==
    LET c == cfg
        R2 == SubdirRegex(c)
    IN  UNION {LET R1 == FileRegex(p, c)
                   subs == Retained(Colnames(ProductRows(remote, p)), R2)
               IN  UNION {LET rows == FileRows(remote, p, sd)
                          IN  {[p |-> p, sd |-> sd, row |-> rows[i]]
                                 : i \in {j \in DOMAIN rows : ReMatch(R1, rows[j].name)}}
                          : sd \in Range(subs)}
               : p \in Range(c.PRODUCTS)}

\* the components of the local path of an eligible file
PathOf(e) == LocalProductDir(cfg, e.p) \o <<e.sd, e.row.name>>

\* a directory name without the slash that ends its link
StripSlash(sd) ==
    IF Len(sd) > 0 /\ sd[Len(sd)] = "/" THEN SubSeq(sd, 1, Len(sd) - 1) ELSE sd

\* localRoot/{product}.{release}/{subdir}/{name}
Placement(p, sd, name) ==
    ddir \o <<"/">> \o p \o <<".">> \o cfg.RELEASE \o <<"/">> \o StripSlash(sd)
         \o <<"/">> \o name

Count(q, x) == Cardinality({k \in DOMAIN q : q[k] = x})

\* C9: at the end of an error-free live run every eligible file that was
\* absent when the run started has been transferred exactly once, to
\* localRoot/{product}.{release}/{subdir}/{name}, and has the modification
\* time of its own remote timestamp; only eligible files are transferred, and
\* none twice.
C9_EndToEndPlacement ==
    (pc = "done" /\ ~cfg.LIST) =>
        /\ \A e \in EligibleFiles :
              PathOf(e) \notin DOMAIN files0 =>
                  /\ Count(transfers, PathOf(e)) = 1
                  /\ OsPathJoin(PathOf(e)) = Placement(e.p, e.sd, e.row.name)
                  /\ PathOf(e) \in DOMAIN files
                  /\ Timed(e.row)
                  /\ files[PathOf(e)].mtime = Timegm(Strptime(e.row.lastmod))
        /\ \A k \in DOMAIN transfers :
              /\ Count(transfers, transfers[k]) = 1
              /\ \E e \in EligibleFiles : transfers[k] = PathOf(e)

\* the files that the step creates or changes
Written == {f \in DOMAIN files' : f \notin DOMAIN files \/ files'[f] # files[f]}

\* C10: every file handed to http_pull_file has a name that passes the file
\* matcher of its product and lies in a subdirectory that passes the
\* subdirectory matcher, and no file is written under a subdirectory that the
\* subdirectory matcher rejects.
C10_LayeredSelection ==
    [][/\ Len(calls') > Len(calls) =>
            LET c == calls'[Len(calls')]
            IN  /\ ReMatch(FileRegex(c[1], cfg), c[3])
                /\ ReMatch(SubdirRegex(cfg), c[2])
       /\ files' # files =>
            \A f \in Written : ReMatch(SubdirRegex(cfg), f[3])]_vars

\* a live run with a YEARS filter has transferred files while the archive
\* holds a dated subdirectory of another year
C10_Witness ==
    /\ pc = "done"
    /\ cfg.YEARS # NotGiven
    /\ transfers # <<>>
    /\ \E k \in DOMAIN Colnames(ProductRows(remote, ATL06)) :
          /\ ~ReMatch(SubdirRegex(cfg), Colnames(ProductRows(remote, ATL06))[k])
          /\ Colnames(ProductRows(remote, ATL06))[k] = SubdirHref(Date2019)

\* the run was ended by a fatal error: no connection, or login rejected
FatalAbort == pc = "aborted" /\ err \in {"RuntimeError", "HTTPError"}

\* C14: the connectivity probe comes before any sync work, and a run that
\* ends because the probe fails or the credentials are rejected has created
\* or changed no local directory and no local file.
C14_FailFast ==
    /\ (pc = "probe") =>
           (requests = <<>> /\ fid = <<>> /\ dirs = dirs0 /\ files = files0)
    /\ FatalAbort => (dirs = dirs0 /\ files = files0)

\* C15: every file handed to http_pull_file comes from a listing row that
\* carries a last-modified value of its own.
C15_UntimedRowNeverPulled ==
    [][(Len(calls') > Len(calls)) => Timed(OwnRow(p_cur, sd_cur, i_cur))]_vars

\* the file loop is at a retained file
AtFile == pc = "file" /\ fidx <= Len(remote_file_lines)

\* C18: the last-modified text the file loop reads for a retained file is the
\* one of the file's own row, and the timestamp a transfer works with is the
\* value of that row.
C18_TimestampAligned ==
    /\ AtFile =>
          /\ i_cur <= Len(collastmod)
          /\ collastmod[i_cur] = OwnRow(p_cur, sd_cur, i_cur).lastmod
    /\ (pull # <<>>) =>
          /\ Timed(OwnRow(p_cur, sd_cur, i_cur))
          /\ pull[1].remote_mtime = OwnTimestamp(p_cur, sd_cur, i_cur)

\* C19: at the end of an error-free live run every eligible remote file
\* exists locally with a modification time not older than its remote
\* timestamp, and equal to it when the run transferred the file.
C19_Converged ==
    (pc = "done" /\ ~cfg.LIST) =>
        \A e \in EligibleFiles :
            /\ PathOf(e) \in DOMAIN files
            /\ Timed(e.row)
            /\ files[PathOf(e)].mtime >= Timegm(Strptime(e.row.lastmod))
            /\ (PathOf(e) \in Range(transfers)) =>
                   files[PathOf(e)].mtime = Timegm(Strptime(e.row.lastmod))

\* the position of x in the sequence q
PosIn(q, x) == CHOOSE k \in DOMAIN q : q[k] = x

\* where a request stands in the archive: (position of the product in
\* PRODUCTS, position of the subdirectory on the product page or 0,
\* position of the file on the subdirectory page or 0)
RequestKey(r) ==
    LET products == opts.PRODUCTS
        pi == CHOOSE i \in DOMAIN products :
                  ProductRelease(products[i], opts.RELEASE) = r[3]
        p == products[pi]
    IN  <<pi,
          IF Len(r) >= 4 THEN PosIn(Colnames(ProductRows(remote, p)), r[4]) ELSE 0,
          IF Len(r) = 5 THEN PosIn(Colnames(FileRows(remote, p, r[4])), r[5]) ELSE 0>>

\* where an http_pull_file call stands in the archive
CallKey(c) ==
    <<PosIn(opts.PRODUCTS, c[1]),
      PosIn(Colnames(ProductRows(remote, c[1])), c[2]),
      PosIn(Colnames(FileRows(remote, c[1], c[2])), c[3])>>

Before(a, b) ==
    \/ a[1] < b[1]
    \/ a[1] = b[1] /\ a[2] < b[2]
    \/ a[1] = b[1] /\ a[2] = b[2] /\ a[3] < b[3]

\* C16: the requests and the http_pull_file calls of a run follow the order
\* of PRODUCTS, then the order of the product page, then the order of the
\* subdirectory page, so that all work on a product comes before any work on
\* the next; a file is handed to http_pull_file only when the transfer of
\* the file before it is over.
C16_ProcessingOrder ==
    [][/\ (Len(requests') > Len(requests) /\ requests # <<>>) =>
              Before(RequestKey(requests[Len(requests)]),
                     RequestKey(requests'[Len(requests')]))
       /\ (Len(calls') > Len(calls)) =>
              /\ pull = <<>>
              /\ calls # <<>> =>
                    Before(CallKey(calls[Len(calls)]), CallKey(calls'[Len(calls')]))
              /\ requests # <<>>
              /\ Before(RequestKey(requests[Len(requests)]) ,
                        <<CallKey(calls'[Len(calls')])[1],
                          CallKey(calls'[Len(calls')])[2],
                          CallKey(calls'[Len(calls')])[3] + 1>>)]_vars

\* a run has ended after files of two products, of two subdirectories of one
\* product and two files of one subdirectory
C16_Witness ==
    /\ pc = "done"
    /\ \E i, j \in DOMAIN calls : calls[i][1] # calls[j][1]
    /\ \E i, j \in DOMAIN calls : calls[i][1] = calls[j][1] /\ calls[i][2] # calls[j][2]
    /\ \E i, j \in DOMAIN calls :
          calls[i][1] = calls[j][1] /\ calls[i][2] = calls[j][2] /\ i # j

\* the directory a path lies in
ParentDir(f) == SubSeq(f, 1, Len(f) - 1)

\* the subdirectory loop is about to make sure of a local directory that exists
EnsuresPresentDir ==
    /\ pc = "subdir"
    /\ sidx <= Len(remote_sub)
    /\ local_dir \in dirs

\* C17: while a file is transferred, and for every local file, the local
\* directory it lies in exists; making sure of a directory that is already
\* there changes no directory and raises nothing.
C17_DirectoryBeforeTransfer ==
    /\ [](/\ (pull # <<>>) => (ParentDir(pull[1].local_file) \in dirs)
          /\ \A f \in DOMAIN files : ParentDir(f) \in dirs)
    /\ [][EnsuresPresentDir =>
             (dirs' = dirs /\ (faults' = faults => pc' = "file"))]_vars

\* a transfer runs into a directory that was there when the run started
C17_Witness ==
    /\ pull # <<>>
    /\ prev # <<>>
    /\ ParentDir(pull[1].local_file) \in dirs0
    /\ pc = "copy"

\* what an error-free run has visited when it ends
SingleVisit ==
    LET c == cfg
        R2 == SubdirRegex(c)
        eligible == EligibleFiles
    IN  /\ \A p \in Range(c.PRODUCTS) :
              /\ Count(requests, RemoteDir(c, p)) = 1
              /\ \A sd \in Range(Retained(Colnames(ProductRows(remote, p)), R2)) :
                    Count(requests, RemoteDir(c, p) \o <<sd>>) = 1
        /\ \A e \in eligible : Count(calls, <<e.p, e.sd, e.row.name>>) = 1
        /\ Len(calls) = Cardinality(eligible)

Finished == pc \in {"done", "aborted"}

\* C20: every run that was started ends, and a run that ends without error
\* has requested the listing of each product once and of each retained
\* subdirectory once and has evaluated each retained file row exactly once.
C20_TerminatesSingleVisit ==
    Running ~> (IF pc = "done" THEN SingleVisit ELSE pc = "aborted")

\* a run over two products with several retained files has ended without error
C20_Witness ==
    /\ pc = "done"
    /\ Len(calls) >= 3
    /\ Len(requests) >= 5

(***************************************************************************)
(* The two matchers on their own: nsidc_icesat2_sync compiles R1 and R2    *)
(* from the options and applies them to the names of a listing page.  The  *)
(* options and the page are drawn from the sets below.                     *)
(***************************************************************************)
ATL07 == <<"A", "T", "L", "0", "7">>
Release002 == <<"0", "0", "2">>

\* a file of the archive by what its name encodes: the product it belongs
\* to, the text its name starts with (sea ice names carry the hemisphere,
\* ATL07-01_...), track, granule region, release, version and suffix
Candidate(product, prefix, track, region, release, version, suffix) ==
    [product |-> product, prefix |-> prefix, track |-> track, region |-> region,
     release |-> release, version |-> version, suffix |-> suffix]

\* the name of the file, e.g. ATL07-01_20181014000347_02350101_003_02.h5
CandidateName(f) ==
    Granule(f.prefix, Date2018, <<0, 3, 47>>, f.track, 1, f.region, f.release,
            f.version, f.suffix)

FileCandidates ==
    <<Candidate(ATL06, ATL06, 235, 2, Release003, 1, SuffixH5),
      Candidate(ATL06, ATL06, 235, 2, Release003, 1, SuffixXml),
      Candidate(ATL06, ATL06, 235, 2, Release003, 1, SuffixH5 \o <<".", "x", "m", "l">>),
      Candidate(ATL06, ATL06, 235, 2, Release002, 1, SuffixH5),
      Candidate(ATL06, ATL06, 236, 2, Release003, 1, SuffixH5),
      Candidate(ATL06, ATL06, 235, 3, Release003, 1, SuffixH5),
      Candidate(ATL06, ATL06, 235, 2, Release003, 2, SuffixH5),
      Candidate(ATL07, ATL07 \o <<"-", "0", "1">>, 235, 1, Release003, 2, SuffixH5),
      Candidate(ATL08, ATL08, 235, 2, Release003, 1, SuffixH5)>>

\* a directory link written with dashes, e.g. 2019-03-12/
DashHref(d) ==
    Decimal(d[1]) \o <<"-">> \o ZeroPad(d[2], 2) \o <<"-">> \o ZeroPad(d[3], 2) \o <<"/">>

\* a product page: the parent link and dated directories
SubdirCandidates ==
    <<ParentHref, SubdirHref(Date2018), SubdirHref(<<2018, 10, 15>>),
      DashHref(Date2018), SubdirHref(Date2019), DashHref(Date2019),
      SubdirHref(<<2020, 1, 5>>), SubdirHref(<<2021, 1, 1>>)>>

FilterPages ==
    {[k \in DOMAIN FileCandidates |-> CandidateName(FileCandidates[k])],
     SubdirCandidates}

\* directory names as they are typed after --subdirectory
Subdir20181014 == <<"2", "0", "1", "8", ".", "1", "0", ".", "1", "4">>
Subdir2018101 == <<"2", "0", "1", "8", ".", "1", "0", ".", "1">>

FilterOptionSets ==
    [PRODUCTS : {<<ATL06>>, <<ATL07>>}, RELEASE : {Release003},
     YEARS : {NotGiven, <<2018>>, <<2019, 2020>>},
     SUBDIRECTORY : {NotGiven, <<Subdir20181014>>, <<Subdir2018101>>},
     VERSIONS : {NotGiven, <<1>>}, GRANULES : {NotGiven, <<2>>},
     TRACKS : {NotGiven, <<235>>},
     AUXILIARY : BOOLEAN, LIST : {FALSE}, CLOBBER : {FALSE}, MODE : {NotGiven}]

FilterInit ==
    /\ opts \in FilterOptionSets
    /\ colnames \in FilterPages
    /\ pc = "names"
    /\ pidx = 1
    /\ remote = [parent |-> NoParent, names |-> {"A", "X"}, notime |-> {}]
    /\ now \in WallClock
    /\ dirs = {}
    /\ dirs0 = {}
    /\ files = EmptyFiles
    /\ files0 = EmptyFiles
    /\ err = ""
    /\ remote_sub = <<>>
    /\ sidx = 0
    /\ collastmod = <<>>
    /\ remote_file_lines = <<>>
    /\ fidx = 0
    /\ pull = <<>>
    /\ fid = <<>>
    /\ requests = <<>>
    /\ calls = <<>>
    /\ transfers = <<>>
    /\ runs = 0
    /\ faults = 0
    /\ prev = <<>>

\* R2 is compiled from SUBDIRECTORY and YEARS, or the truth test of YEARS
\* raises; remote_sub = [sd for sd in colnames if R2.match(sd)]
FilterSubdirs ==
    /\ pc = "names"
    /\ IF SubdirRegexRaises(cfg)
       THEN /\ Raise("ValueError")
            /\ remote_sub' = remote_sub
       ELSE /\ remote_sub' = Retained(colnames, SubdirRegex(cfg))
            /\ pc' = "subdirs"
            /\ err' = err
    /\ UNCHANGED <<remote, now, files0, dirs0, dirs, files, opts, pidx, sidx, colnames,
                   collastmod, remote_file_lines, fidx, pull, fid, requests,
                   calls, transfers, runs, faults, prev>>

\* R1 is compiled for the product;
\* remote_file_lines = [i for i,f in enumerate(colnames) if R1.match(f)]
FilterFiles ==
    /\ pc = "names"
    /\ remote_file_lines' = MatchingLines(colnames, FileRegex(p_cur, cfg))
    /\ pc' = "lines"
    /\ UNCHANGED <<remote, now, files0, dirs0, dirs, files, opts, err, pidx, remote_sub,
                   sidx, colnames, collastmod, fidx, pull, fid, requests, calls,
                   transfers, runs, faults, prev>>

FilterNext == FilterSubdirs \/ FilterFiles

FilterSpec == FilterInit /\ [][FilterNext]_vars

\* the files a name can be the name of
Decoded(name) ==
    {FileCandidates[k] : k \in {j \in DOMAIN FileCandidates :
                                   CandidateName(FileCandidates[j]) = name}}

EndsWith(t, suffix) ==
    /\ Len(t) >= Len(suffix)
    /\ SubSeq(t, Len(t) - Len(suffix) + 1, Len(t)) = suffix

\* the file is one the options ask for
Requested(f, p, c) ==
    /\ f.product = p
    /\ f.release = c.RELEASE
    /\ f.track \in Range(c.TRACKS)
    /\ f.region \in Range(c.GRANULES)
    /\ f.version \in Range(c.VERSIONS)
    /\ (~c.AUXILIARY) => EndsWith(f.suffix, SuffixH5)

\* C11: R1 accepts a name if and only if the name decodes to the requested
\* product and release and to a track, granule region and version of the
\* requested sets and, with AUXILIARY off, ends with .h5.
C11_FileFilterSound ==
    (pc = "lines") =>
        \A k \in DOMAIN colnames :
            (k \in Range(remote_file_lines)) <=>
                (\E f \in Decoded(colnames[k]) : Requested(f, p_cur, cfg))

\* C12: with SUBDIRECTORY given, R2 is compiled and retains exactly the
\* entries whose name is one of the given names, whatever YEARS is.
C12_ExplicitSubdirectories ==
    (cfg.SUBDIRECTORY # <<>> /\ pc \in {"subdirs", "aborted"}) =>
        /\ pc = "subdirs"
        /\ remote_sub = SelectSeq(colnames,
                            LAMBDA n : StripSlash(n) \in Range(cfg.SUBDIRECTORY))

\* the name starts with one of the years and a date in dots: YYYY.MM.DD
YearDated(n, years) ==
    ReMatch(Cat(<<AltNumbers(years, 1), Chr("."), Rep(Dig, 2), Chr("."), Rep(Dig, 2)>>), n)

\* C13: with YEARS given and no SUBDIRECTORY, R2 is compiled and retains
\* exactly the entries whose name starts with one of the years followed by
\* a date in dots.
C13_YearSubdirectories ==
    (cfg.SUBDIRECTORY = <<>> /\ cfg.YEARS # <<>> /\ pc \in {"subdirs", "aborted"}) =>
        /\ pc = "subdirs"
        /\ remote_sub = SelectSeq(colnames, LAMBDA n : YearDated(n, cfg.YEARS))

====
